---------------------------- MODULE Spec2Model ----------------------------
(***************************************************************************)
(* A model of lowdown's library.c: the pipeline orchestration              *)
(* (lowdown_buf, lowdown_file), the metadata date normalisers (date2str,   *)
(* rcsdate2str), the escapers (serialise_roff and the HTML title loop) and *)
(* the standalone wrapper (lowdown_standalone_open / _close).              *)
(*                                                                         *)
(* C strings are sequences of one-character strings.  The null pointer to  *)
(* a string is NULL, a tuple no C string equals.  A pointer to a buffer is *)
(* the buffer's name.                                                      *)
(***************************************************************************)
EXTENDS Integers, Sequences, FiniteSets, TLC

VARIABLES
    pc,               \* "idle": no call in progress; "done": a call returned
    last,             \* the call that returned: its operation, inputs, outputs
    date2str_buf,     \* date2str's   static char buf[32]  (library.c:131)
    rcsdate2str_buf,  \* rcsdate2str's static char buf[32] (library.c:154)
    tpc,              \* per thread: position inside lowdown_standalone_open
    ti,               \* per thread: the loop index i (library.c:215)
    tdate,            \* per thread: the local pointer `date' (library.c:203)
    tmeta,            \* per thread: the metadata m passed to open
    tscan,            \* per thread: the string the running snprintf writes
    tw,               \* per thread: how many of its bytes snprintf has stored
    tn,               \* per thread: the length measured for the date to emit
    tout              \* per thread: the date string the thread emitted

vars == <<pc, last, date2str_buf, rcsdate2str_buf, tpc, ti, tdate, tmeta, tscan,
          tw, tn, tout>>
seqvars == <<pc, last>>
bufvars == <<date2str_buf, rcsdate2str_buf>>
thrvars == <<tpc, ti, tdate, tmeta, tscan, tw, tn, tout>>

-----------------------------------------------------------------------------
(* Bounds of the model. *)

\* leading zeros added to a date field of an input
MaxPad == 1
\* longest string handed to an escaper
MaxLen == 3
\* longest metadata sequence handed to lowdown_standalone_open
MaxMeta == 2
\* longest input stream drained by lowdown_file
MaxStream == 2

-----------------------------------------------------------------------------
(* Characters and C library helpers. *)

NULL == <<"NULL">>

\* the byte '\0' that ends a C string
NUL == "\\0"

\* the vertical tab '\v', byte 0x0b, written as the byte itself
VT == ""

DigitChars == <<"0", "1", "2", "3", "4", "5", "6", "7", "8", "9">>

\* isdigit(3)
isdigit(c) == \E k \in 1..10 : DigitChars[k] = c

DigitVal(c) == (CHOOSE k \in 1..10 : DigitChars[k] = c) - 1

\* isspace(3) in the C locale
isspace(c) == c \in {" ", "\t", "\n", VT, "\f", "\r"}

RECURSIVE SkipSpace(_, _)
\* while (isspace(s[i])) i++
SkipSpace(s, i) ==
    IF i <= Len(s) /\ isspace(s[i]) THEN SkipSpace(s, i + 1) ELSE i

\* Unsigned arithmetic.  sscanf converts %u through an unsigned long of 64
\* bits and stores its low 32 bits; an unsigned long is kept here as its
\* four 16-bit limbs, least significant first, an unsigned int as two.
Limb == 2 ^ 16

RECURSIVE MulAdd(_, _, _, _)
\* l * 10 + c, from limb k on; over: the number went beyond ULONG_MAX
\* before, or does so now
MulAdd(l, k, c, over) ==
    IF k > Len(l) THEN [val |-> l, over |-> over \/ c > 0]
    ELSE MulAdd([l EXCEPT ![k] = (l[k] * 10 + c) % Limb], k + 1,
                (l[k] * 10 + c) \div Limb, over)

RECURSIVE ReadDigits(_, _, _)
\* the digits from s[i] on, acc being the number read so far
ReadDigits(s, i, acc) ==
    IF i <= Len(s) /\ isdigit(s[i])
    THEN ReadDigits(s, i + 1, MulAdd(acc.val, 1, DigitVal(s[i]), acc.over))
    ELSE [val |-> acc.val, over |-> acc.over, next |-> i]

\* UINT_MAX
UIntMax == <<Limb - 1, Limb - 1>>

\* 2^32 - u modulo 2^32
Neg32(u) ==
    <<(Limb - u[1]) % Limb,
      (Limb - u[2] - (IF u[1] = 0 THEN 0 ELSE 1)) % Limb>>

\* The unsigned int a %u conversion stores: ULONG_MAX truncated when the
\* digits overflow an unsigned long, else the low 32 bits of the number,
\* negated after a '-'.
ScanValue(r, sign) ==
    [ok |-> TRUE, eof |-> FALSE,
     val |-> IF r.over THEN UIntMax
             ELSE IF sign = "-" THEN Neg32(SubSeq(r.val, 1, 2))
             ELSE SubSeq(r.val, 1, 2),
     next |-> r.next]

\* the digits of a %u conversion after its sign (sign = "": there is none);
\* the end of the input right after a sign is a matching failure, not EOF
ScanNum(s, k, sign) ==
    IF k <= Len(s) /\ isdigit(s[k])
    THEN ScanValue(ReadDigits(s, k, [val |-> <<0, 0, 0, 0>>, over |-> FALSE]), sign)
    ELSE [ok |-> FALSE, eof |-> k > Len(s) /\ sign = "", val |-> <<0, 0>>,
          next |-> k]

ScanSign(s, j) ==
    IF j <= Len(s) /\ s[j] \in {"+", "-"}
    THEN ScanNum(s, j + 1, s[j])
    ELSE ScanNum(s, j, "")

\* One %u conversion of sscanf(3) at position i: white space is skipped, an
\* optional sign is accepted, then at least one digit must follow.
ScanU(s, i) == ScanSign(s, SkipSpace(s, i))

RECURSIVE Sscanf(_, _, _, _, _)
RECURSIVE SscanfU(_, _, _, _, _)
\* sscanf(s + i - 1, fmt, ...) from directive k of fmt on, vals being the
\* values stored so far.  A directive is "%u", a blank (any amount of white
\* space, none included) or an ordinary character, which must match.  rc is
\* the number of conversions made, or EOF (-1) when the input ends before
\* the first one.
Sscanf(s, i, fmt, k, vals) ==
    IF k > Len(fmt) THEN [rc |-> Len(vals), vals |-> vals]
    ELSE IF fmt[k] = "%u" THEN SscanfU(s, fmt, k, vals, ScanU(s, i))
    ELSE IF fmt[k] = " " THEN Sscanf(s, SkipSpace(s, i), fmt, k + 1, vals)
    ELSE IF i <= Len(s) /\ s[i] = fmt[k] THEN Sscanf(s, i + 1, fmt, k + 1, vals)
    ELSE [rc |-> Len(vals), vals |-> vals]

SscanfU(s, fmt, k, vals, r) ==
    IF r.ok THEN Sscanf(s, r.next, fmt, k + 1, Append(vals, r.val))
    ELSE [rc |-> IF vals = <<>> /\ r.eof THEN 0 - 1 ELSE Len(vals),
          vals |-> vals]

\* the format strings of library.c:136, 138 and 165
FmtSlash == <<"%u", "/", "%u", "/", "%u">>
FmtDash == <<"%u", "-", "%u", "-", "%u">>
FmtRcs == <<"%u", "/", "%u", "/", "%u", " ", "%u", ":", "%u", ":", "%u">>

\* an unsigned int divided by 10, and the remainder
Div10(u) == <<((u[2] % 10) * Limb + u[1]) \div 10, u[2] \div 10>>
Mod10(u) == ((u[2] % 10) * Limb + u[1]) % 10

RECURSIVE Dec(_)
\* the decimal digits of an unsigned int
Dec(u) == IF u[2] = 0 /\ u[1] < 10 THEN <<DigitChars[u[1] + 1]>>
          ELSE Dec(Div10(u)) \o <<DigitChars[Mod10(u) + 1]>>

RECURSIVE PadTo(_, _)
PadTo(s, w) == IF Len(s) >= w THEN s ELSE PadTo(<<"0">> \o s, w)

\* printf's %u / %.2u of an unsigned int x, at least w digits
FmtU(x, w) == PadTo(Dec(x), w)

\* sizeof(buf) of the two static buffers
BufSize == 32

Take(s, n) == IF Len(s) <= n THEN s ELSE SubSeq(s, 1, n)

\* snprintf(buf, sizeof(buf), "%u-%.2u-%.2u", y, m, d): at most
\* sizeof(buf) - 1 characters are stored
FmtDate(y, m, d) ==
    Take(FmtU(y, 1) \o <<"-">> \o FmtU(m, 2) \o <<"-">> \o FmtU(d, 2),
         BufSize - 1)

-----------------------------------------------------------------------------
(* The metadata date normalisers, library.c:126-175.  A normaliser gives   *)
(* the pointer it returns ("NULL" or its static buffer), what it wrote to  *)
(* the static buffer (NULL: nothing) and whether it called warnx.          *)

NullArg == [ret |-> "NULL", buf |-> NULL, warn |-> FALSE]
Malformed == [ret |-> "NULL", buf |-> NULL, warn |-> TRUE]
Formatted(ptr, vals) ==
    [ret |-> ptr, buf |-> FmtDate(vals[1], vals[2], vals[3]), warn |-> FALSE]

\* library.c:138-146, r2 being the result of the second sscanf
date2str_dash(r2) ==
    IF r2.rc # 3 THEN Malformed ELSE Formatted("date2str.buf", r2.vals)

\* library.c:137-146, r1 being the result of the first sscanf
date2str_slash(v, r1) ==
    IF r1.rc # 3 THEN date2str_dash(Sscanf(v, 1, FmtDash, 1, <<>>))
    ELSE Formatted("date2str.buf", r1.vals)

\* date2str without the fallback to the '-' grammar (a mutant)
date2str_slash_only(v) ==
    IF v = NULL THEN NullArg
    ELSE date2str_dash(Sscanf(v, 1, FmtSlash, 1, <<>>))

\* date2str(v)
date2str(v) ==
    IF v = NULL THEN NullArg
    ELSE date2str_slash(v, Sscanf(v, 1, FmtSlash, 1, <<>>))

\* length of the prefix rcsdate2str skips (library.c:159, 164)
RcsSkip == 7

\* library.c:168-174, r being the result of sscanf
rcsdate2str_scanned(r) ==
    IF r.rc # 6 THEN Malformed ELSE Formatted("rcsdate2str.buf", r.vals)

\* library.c:168-174 accepting a date without its time fields (a mutant)
rcsdate2str_scanned_date_only(r) ==
    IF r.rc < 3 THEN Malformed ELSE Formatted("rcsdate2str.buf", r.vals)

\* rcsdate2str accepting a date without its time fields (a mutant)
rcsdate2str_date_only(v) ==
    IF v = NULL THEN NullArg
    ELSE IF Len(v) < RcsSkip THEN Malformed
    ELSE rcsdate2str_scanned_date_only(Sscanf(v, RcsSkip + 1, FmtRcs, 1, <<>>))

\* rcsdate2str(v)
rcsdate2str(v) ==
    IF v = NULL THEN NullArg
    ELSE IF Len(v) < RcsSkip THEN Malformed
    ELSE rcsdate2str_scanned(Sscanf(v, RcsSkip + 1, FmtRcs, 1, <<>>))

\* A static buffer is its BufSize bytes.  CStr is the C string it holds: the
\* bytes before the first NUL.
CStr(b) ==
    SubSeq(b, 1, (CHOOSE k \in 1..Len(b) :
                    b[k] = NUL /\ \A j \in 1..(k - 1) : b[j] # NUL) - 1)

\* a static buffer after a call of its normaliser that returned r: snprintf
\* stores the string and its NUL and leaves the bytes behind them
Store(old, r) ==
    IF r.buf = NULL THEN old
    ELSE r.buf \o <<NUL>> \o SubSeq(old, Len(r.buf) + 2, Len(old))

\* what a pointer returned by a normaliser points at, given the buffers
Deref(p, dbuf, rbuf) ==
    IF p = "date2str.buf" THEN CStr(dbuf)
    ELSE IF p = "rcsdate2str.buf" THEN CStr(rbuf)
    ELSE NULL

-----------------------------------------------------------------------------
(* Inputs of the date normalisers. *)

RECURSIVE Zeros(_)
Zeros(k) == IF k = 0 THEN <<>> ELSE <<"0">> \o Zeros(k - 1)

\* a field written with 0..MaxPad leading zeros
Pads(F) == {Zeros(k) \o f : k \in 0..MaxPad, f \in F}

YearFields == Pads({<<"2", "0", "2", "1">>, <<"1", "9", "9", "9">>})
MonthFields == Pads({<<"3">>, <<"1", "2">>})
DayFields == Pads({<<"5">>, <<"3", "1">>})
Seps == {"/", "-"}

BuildDate(y, s1, m, s2, d) == y \o <<s1>> \o m \o <<s2>> \o d

S_2021_3_5_slash == <<"2", "0", "2", "1", "/", "3", "/", "5">>
S_2021_3_5_dash == <<"2", "0", "2", "1", "-", "3", "-", "5">>
S_not_a_date == <<"n", "o", "t", "-", "a", "-", "d", "a", "t", "e">>
S_2020_01_01 == <<"2", "0", "2", "0", "-", "0", "1", "-", "0", "1">>
S_two_fields == <<"2", "0", "2", "1", "/", "3">>
S_lead_space == <<" ">> \o S_2021_3_5_slash
S_trail_junk == S_2021_3_5_slash \o <<"x">>
\* "-4294965275/3/5": the year is stored as 2^32 - 4294965275 = 2021
S_signed ==
    <<"-", "4", "2", "9", "4", "9", "6", "5", "2", "7", "5", "/", "3", "/", "5">>
S_space_sep == <<"2", "0", "2", "1", " ", "/", "3", "/", "5">>

DateInputs ==
    {BuildDate(y, s1, m, s2, d) :
        y \in YearFields, s1 \in Seps, m \in MonthFields, s2 \in Seps,
        d \in DayFields}
    \cup {S_2021_3_5_slash, S_2021_3_5_dash, S_not_a_date, S_2020_01_01,
          S_two_fields, S_lead_space, S_trail_junk, S_signed, S_space_sep,
          <<>>, NULL}

P_Date == <<"$", "D", "a", "t", "e", ":", " ">>
P_Id == <<"$", "I", "d", ":", " ", "x", " ">>
P_Short == <<"$", "D", "a", "t", "e", ":">>

T_10_11_12 == <<"1", "0", ":", "1", "1", ":", "1", "2">>
T_00_00_00 == <<"0", "0", ":", "0", "0", ":", "0", "0">>
T_tagged == T_10_11_12 \o <<" ", "$">>
T_no_seconds == <<"1", "0", ":", "1", "1">>

RcsPrefixes == {P_Date, P_Id}
RcsFullTimes == {T_10_11_12, T_00_00_00, T_tagged}
RcsTimes == RcsFullTimes \cup {T_no_seconds, <<>>}
RcsMonths == Pads({<<"3">>})
RcsDays == Pads({<<"5">>})

BuildRcs(p, y, m, d, t) == p \o BuildDate(y, "/", m, "/", d) \o <<" ">> \o t

\* "$Date: 2021/03/05 10:11:12 $"
S_rcs_example ==
    P_Date \o <<"2", "0", "2", "1", "/", "0", "3", "/", "0", "5", " ">> \o T_tagged
\* "$Date: 2021/02/02 00:00:00$"
S_rcs_2021_02_02 ==
    P_Date \o <<"2", "0", "2", "1", "/", "0", "2", "/", "0", "2", " ">>
           \o T_00_00_00 \o <<"$">>
\* a six-character prefix: the seventh character skipped is the year's first
S_rcs_short_prefix ==
    P_Short \o <<"2", "0", "2", "1", "/", "0", "3", "/", "0", "5", " ">> \o T_10_11_12
S_rcs_unexpanded == <<"$", "D", "a", "t", "e", "$">>

RcsInputs ==
    {BuildRcs(p, y, m, d, t) :
        p \in RcsPrefixes, y \in YearFields, m \in RcsMonths, d \in RcsDays,
        t \in RcsTimes}
    \cup {S_rcs_example, S_rcs_2021_02_02, S_rcs_short_prefix,
          S_rcs_unexpanded, P_Date, P_Short, <<>>, <<"$">>, NULL}

-----------------------------------------------------------------------------
(* State of the calls. *)

NoCall == [op |-> "none"]
Threads == {1, 2}

SeqIdle ==
    /\ pc = "idle"
    /\ last = NoCall

BufInit ==
    /\ date2str_buf = [k \in 1..BufSize |-> NUL]
    /\ rcsdate2str_buf = [k \in 1..BufSize |-> NUL]

\* a caller reads the result and the call is over
Return ==
    /\ pc = "done"
    /\ pc' = "idle"
    /\ last' = NoCall
    /\ UNCHANGED <<bufvars, thrvars>>

-----------------------------------------------------------------------------
(* The normalisers called on their own. *)

Call_date2str ==
    /\ pc = "idle"
    /\ \E v \in DateInputs :
        \E r \in {date2str(v)} :
            /\ last' = [op |-> "date2str", v |-> v, ret |-> r.ret,
                        warned |-> r.warn]
            /\ date2str_buf' = Store(date2str_buf, r)
    /\ pc' = "done"
    /\ UNCHANGED <<rcsdate2str_buf, thrvars>>

Call_rcsdate2str ==
    /\ pc = "idle"
    /\ \E v \in RcsInputs :
        \E r \in {rcsdate2str(v)} :
            /\ last' = [op |-> "rcsdate2str", v |-> v, ret |-> r.ret,
                        warned |-> r.warn]
            /\ rcsdate2str_buf' = Store(rcsdate2str_buf, r)
    /\ pc' = "done"
    /\ UNCHANGED <<date2str_buf, thrvars>>

ThreadsIdle ==
    /\ tpc = [t \in Threads |-> "off"]
    /\ ti = [t \in Threads |-> 0]
    /\ tdate = [t \in Threads |-> "NULL"]
    /\ tmeta = [t \in Threads |-> <<>>]
    /\ tscan = [t \in Threads |-> <<>>]
    /\ tw = [t \in Threads |-> 0]
    /\ tn = [t \in Threads |-> 0]
    /\ tout = [t \in Threads |-> NULL]

InitDate == SeqIdle /\ BufInit /\ ThreadsIdle
NextDate == Call_date2str \/ Call_rcsdate2str \/ Return
SpecDate == InitDate /\ [][NextDate]_vars

\* the string a returned call's result points at (NULL for no value)
LastStr == Deref(last.ret, date2str_buf, rcsdate2str_buf)

-----------------------------------------------------------------------------
(* The Canonical Date of three digit strings, as the specification words   *)
(* it: the year unpadded, month and day zero-padded to width 2.            *)

RECURSIVE Unpad(_)
Unpad(f) == IF Len(f) > 1 /\ f[1] = "0" THEN Unpad(Tail(f)) ELSE f

Pad2(f) == IF Len(f) < 2 THEN <<"0">> \o f ELSE f

Canonical(y, m, d) ==
    Unpad(y) \o <<"-">> \o Pad2(Unpad(m)) \o <<"-">> \o Pad2(Unpad(d))

S_2021_03_05 == <<"2", "0", "2", "1", "-", "0", "3", "-", "0", "5">>
S_2021_02_02 == <<"2", "0", "2", "1", "-", "0", "2", "-", "0", "2">>

\* C7: normalizeDate tries the '/' grammar, then the '-' grammar; three
\* fields with one separator used twice give the Canonical Date, anything
\* else (mixed separators, fewer fields, non-numeric text) gives no value
\* with a warning; "2021/3/5" and "2021-3-5" both give "2021-03-05".
C7_NormalizeDate ==
    (pc = "done" /\ last.op = "date2str") =>
        /\ \A y \in YearFields, m \in MonthFields, d \in DayFields,
              s1 \in Seps, s2 \in Seps :
              last.v = BuildDate(y, s1, m, s2, d) =>
                  IF s1 = s2
                  THEN LastStr = Canonical(y, m, d) /\ ~last.warned
                  ELSE LastStr = NULL /\ last.warned
        /\ last.v \in {S_2021_3_5_slash, S_2021_3_5_dash} =>
              LastStr = S_2021_03_05
        /\ last.v \in {S_not_a_date, S_two_fields, <<>>} =>
              LastStr = NULL /\ last.warned
        /\ (LastStr = NULL) = (last.ret = "NULL")
        /\ (last.v # NULL) => (last.warned = (last.ret = "NULL"))

C7_Witness ==
    /\ pc = "done" /\ last.op = "date2str"
    /\ last.v = S_2021_3_5_dash
    /\ LastStr = S_2021_03_05

\* C8: normalizeRcsDate gives no value for every string shorter than 7
\* bytes; otherwise it skips the first 7 characters whatever they are,
\* needs all six integers, and gives the Canonical Date of year, month and
\* day, whatever the prefix and the time fields are.
C8_NormalizeRcsDate ==
    (pc = "done" /\ last.op = "rcsdate2str" /\ last.v # NULL) =>
        /\ Len(last.v) < 7 => (LastStr = NULL /\ last.warned)
        /\ \A p \in RcsPrefixes, y \in YearFields, m \in RcsMonths,
              d \in RcsDays, t \in RcsTimes :
              last.v = BuildRcs(p, y, m, d, t) =>
                  IF t \in RcsFullTimes
                  THEN LastStr = Canonical(y, m, d) /\ ~last.warned
                  ELSE LastStr = NULL /\ last.warned
        /\ last.v = S_rcs_example => LastStr = S_2021_03_05
        /\ last.v = S_rcs_2021_02_02 => LastStr = S_2021_02_02
        /\ last.v = S_rcs_short_prefix =>
              LastStr = <<"2", "1", "-", "0", "3", "-", "0", "5">>
        /\ last.v = P_Date => LastStr = NULL

C8_Witness ==
    /\ pc = "done" /\ last.op = "rcsdate2str"
    /\ last.v = S_rcs_example
    /\ LastStr = S_2021_03_05

-----------------------------------------------------------------------------
(* The escapers, library.c:177-196 and 244-254. *)

\* the loop body of library.c:186-193
RoffChar(c, block) ==
    IF c = "\\" THEN <<"\\", "e">>
    ELSE IF ~block /\ c = "\"" THEN <<"\\", "(", "d", "q">>
    ELSE IF isspace(c) THEN <<" ">>
    ELSE <<c>>

RECURSIVE RoffLoop(_, _, _)
\* the for loop of library.c:185-193 from position i on
RoffLoop(v, i, block) ==
    IF i > Len(v) THEN <<>>
    ELSE RoffChar(v[i], block) \o RoffLoop(v, i + 1, block)

\* serialise_roff escaping '"' in a block too and never guarding a leading
\* '.' (a mutant)
serialise_roff_unguarded(v, block) ==
    RoffLoop(v, SkipSpace(v, 1), FALSE) \o (IF block THEN <<"\n">> ELSE <<>>)

\* serialise_roff(op, v, block): what is appended to op
serialise_roff(v, block) ==
    LET i == SkipSpace(v, 1)
    IN  (IF block /\ i <= Len(v) /\ v[i] = "." THEN <<"\\", "&">> ELSE <<>>)
        \o RoffLoop(v, i, block)
        \o (IF block THEN <<"\n">> ELSE <<>>)

\* the loop body of library.c:247-254
HtmlChar(c) ==
    IF c = "<" THEN <<"&", "l", "t", ";">>
    ELSE IF c = ">" THEN <<"&", "g", "t", ";">>
    ELSE IF isspace(c) THEN <<" ">>
    ELSE <<c>>

RECURSIVE HtmlLoop(_, _)
\* the for loop of library.c:246-254 from position i on
HtmlLoop(v, i) ==
    IF i > Len(v) THEN <<>> ELSE HtmlChar(v[i]) \o HtmlLoop(v, i + 1)

RECURSIVE HtmlLoopCollapsing(_, _)
\* the loop writing one space for a whole run of white space (part of a
\* mutant)
HtmlLoopCollapsing(v, i) ==
    IF i > Len(v) THEN <<>>
    ELSE IF isspace(v[i]) /\ isspace(v[i - 1]) THEN HtmlLoopCollapsing(v, i + 1)
    ELSE HtmlChar(v[i]) \o HtmlLoopCollapsing(v, i + 1)

\* the title escaping collapsing every run of white space (a mutant)
html_title_collapsing(title) ==
    IF SkipSpace(title, 1) > Len(title) THEN <<>>
    ELSE HtmlChar(title[SkipSpace(title, 1)])
         \o HtmlLoopCollapsing(title, SkipSpace(title, 1) + 1)

\* the title escaping of lowdown_standalone_open, library.c:244-254: what
\* is appended to op between <title> and </title>
html_title(title) == HtmlLoop(title, SkipSpace(title, 1))

\* library.c:236-243
HtmlHead ==
    <<"<", "!", "D", "O", "C", "T", "Y", "P", "E", " ", "h", "t", "m",
      "l", ">", "\n", "<", "h", "t", "m", "l", ">", "\n", "<", "h", "e",
      "a", "d", ">", "\n", "<", "m", "e", "t", "a", " ", "c", "h", "a",
      "r", "s", "e", "t", "=", "\"", "u", "t", "f", "-", "8", "\"", ">",
      "\n", "<", "m", "e", "t", "a", " ", "n", "a", "m", "e", "=", "\"",
      "v", "i", "e", "w", "p", "o", "r", "t", "\"", " ", "c", "o", "n",
      "t", "e", "n", "t", "=", "\"", "w", "i", "d", "t", "h", "=", "d",
      "e", "v", "i", "c", "e", "-", "w", "i", "d", "t", "h", ",", "i",
      "n", "i", "t", "i", "a", "l", "-", "s", "c", "a", "l", "e", "=",
      "1", "\"", ">", "\n", "<", "t", "i", "t", "l", "e", ">">>

\* library.c:255-258
HtmlTail ==
    <<"<", "/", "t", "i", "t", "l", "e", ">", "\n", "<", "/", "h", "e",
      "a", "d", ">", "\n", "<", "b", "o", "d", "y", ">", "\n">>

\* library.c:292
HtmlClose ==
    <<"<", "/", "b", "o", "d", "y", ">", "\n", "<", "/", "h", "t", "m",
      "l", ">", "\n">>

\* library.c:204
UntitledArticle ==
    <<"U", "n", "t", "i", "t", "l", "e", "d", " ", "a", "r", "t", "i",
      "c", "l", "e">>

-----------------------------------------------------------------------------
(* The standalone wrapper, library.c:198-303. *)

\* struct lowdown_opts; opts.null: the pointer handed over is NULL
NoOpts == [null |-> TRUE, type |-> "none", oflags |-> {}, feat |-> {}]
Opts(type, oflags, feat) ==
    [null |-> FALSE, type |-> type, oflags |-> oflags, feat |-> feat]

Types == {"LOWDOWN_HTML", "LOWDOWN_NROFF", "LOWDOWN_MAN"}

\* What reading opts->type through a null pointer can give: the process
\* faults, or the read yields some value of the enumeration.
UBReads == {"fault"} \cup Types

Meta(k, v) == [key |-> k, value |-> v]

\* library.c:220-221 and 222-223: date is overwritten by what the
\* normaliser returned, r
AfterRcsdate(st, r) ==
    [st EXCEPT !.date = r.ret, !.rbuf = Store(@, r),
               !.warns = IF r.warn THEN @ + 1 ELSE @]
AfterDate(st, r) ==
    [st EXCEPT !.date = r.ret, !.dbuf = Store(@, r),
               !.warns = IF r.warn THEN @ + 1 ELSE @]

\* the loop body of library.c:216-223 for entry e
ScanEntry(st, e) ==
    IF e.key = "title" THEN [st EXCEPT !.title = e.value]
    ELSE IF e.key = "author" THEN [st EXCEPT !.author = e.value]
    ELSE IF e.key = "rcsdate" THEN AfterRcsdate(st, rcsdate2str(e.value))
    ELSE IF e.key = "date" THEN AfterDate(st, date2str(e.value))
    ELSE st

\* a malformed date leaves the date found before (part of a mutant)
KeepDate(st, st2) == IF st2.date = "NULL" THEN [st2 EXCEPT !.date = st.date] ELSE st2

RECURSIVE ScanMeta_keep_date(_, _, _)
\* the scan keeping an earlier date when a later one is malformed (a mutant)
ScanMeta_keep_date(m, i, st) ==
    IF i > Len(m) THEN st
    ELSE ScanMeta_keep_date(m, i + 1, KeepDate(st, ScanEntry(st, m[i])))

RECURSIVE ScanMeta(_, _, _)
\* the metadata loop of library.c:215-223 from entry i on; st holds the
\* locals title, author and date, the two static buffers and the number of
\* warnings written
ScanMeta(m, i, st) ==
    IF i > Len(m) THEN st ELSE ScanMeta(m, i + 1, ScanEntry(st, m[i]))

\* library.c:275-279, op being the bytes put into the buffer
open_result(type, st, date, op) ==
    [fault |-> type = "fault",
     res |-> IF type = "fault" THEN NULL ELSE op,
     rsz |-> IF type = "fault" THEN 0 ELSE Len(op),
     title |-> st.title, date |-> date,
     dbuf |-> st.dbuf, rbuf |-> st.rbuf, warns |-> st.warns]

\* the switch of library.c:234-273
open_switch(type, st, date) ==
    open_result(type, st, date,
        IF type = "LOWDOWN_HTML"
        THEN HtmlHead \o html_title(st.title) \o HtmlTail
        ELSE IF type = "LOWDOWN_NROFF"
        THEN <<".", "D", "A", " ">> \o date \o <<"\n", ".", "T", "L", "\n">>
             \o serialise_roff(st.title, TRUE)
             \o (IF st.author # NULL
                 THEN <<".", "A", "U", "\n">> \o serialise_roff(st.author, TRUE)
                 ELSE <<>>)
        ELSE IF type = "LOWDOWN_MAN"
        THEN <<".", "T", "H", " ", "\"">> \o serialise_roff(st.title, FALSE)
             \o <<"\"", " ", "7", " ">> \o date \o <<"\n">>
        ELSE <<>>)

\* library.c:227-232: the current date when no date was found
open_date(type, st, today) ==
    open_switch(type, st,
        IF st.date = "NULL" THEN today ELSE Deref(st.date, st.dbuf, st.rbuf))

\* lowdown_standalone_open(opts, m, msz, res, rsz).  today is what strftime
\* "%F" gives for the current local time; ub is what the read of opts->type
\* gives when opts is NULL.
lowdown_standalone_open(opts, m, today, ub) ==
    open_date(IF opts.null THEN ub ELSE opts.type,
              ScanMeta(m, 1,
                [title |-> UntitledArticle, author |-> NULL, date |-> "NULL",
                 dbuf |-> date2str_buf, rbuf |-> rcsdate2str_buf, warns |-> 0]),
              today)

\* library.c:298-302; a buffer nothing was put into has no storage
close_result(type, op) ==
    [fault |-> type = "fault",
     res |-> IF type = "fault" \/ op = <<>> THEN NULL ELSE op,
     rsz |-> IF type = "fault" THEN 0 ELSE Len(op)]

\* the switch of library.c:290-296
close_switch(type) ==
    close_result(type, IF type = "LOWDOWN_HTML" THEN HtmlClose ELSE <<>>)

\* lowdown_standalone_close(opts, res, rsz)
lowdown_standalone_close(opts, ub) ==
    close_switch(IF opts.null THEN ub ELSE opts.type)

\* the current local date as strftime "%F" writes it (library.c:228-230)
Today ==
    <<"2", "0", "2", "6", "-", "1", "0", "-", "2", "9">>

Open(Os, Ms) ==
    /\ pc = "idle"
    /\ \E opts \in Os, m \in Ms, ub \in UBReads :
        \E r \in {lowdown_standalone_open(opts, m, Today, ub)} :
            /\ last' = [op |-> "open", opts |-> opts, m |-> m,
                        fault |-> r.fault, res |-> r.res, rsz |-> r.rsz,
                        title |-> r.title, date |-> r.date, warns |-> r.warns]
            /\ date2str_buf' = r.dbuf
            /\ rcsdate2str_buf' = r.rbuf
            /\ pc' = IF r.fault THEN "fault" ELSE "done"
    /\ UNCHANGED thrvars

Close(Os) ==
    /\ pc = "idle"
    /\ \E opts \in Os, ub \in UBReads :
        \E r \in {lowdown_standalone_close(opts, ub)} :
            /\ last' = [op |-> "close", opts |-> opts,
                        fault |-> r.fault, res |-> r.res, rsz |-> r.rsz]
            /\ pc' = IF r.fault THEN "fault" ELSE "done"
    /\ UNCHANGED <<bufvars, thrvars>>

-----------------------------------------------------------------------------
(* The escapers on every short string. *)

Alphabet == {" ", "\t", "\n", VT, ".", "\\", "\"", "a", "<", ">", "&"}

\* .foo\bar
S_dot_foo_bar ==
    <<".", "f", "o", "o", "\\", "b", "a", "r">>
S_Hi ==
    <<" ", " ", "<", "H", "i", ">", " ">>
S_He_said ==
    <<"H", "e", " ", "s", "a", "i", "d", " ", "\"", "h", "i", "\"", " ",
      "&", " ", "l", "e", "f", "t">>

Strings ==
    UNION {[1..k -> Alphabet] : k \in 0..MaxLen}
    \cup {S_dot_foo_bar, S_Hi, S_He_said}

Call_serialise_roff ==
    /\ pc = "idle"
    /\ \E v \in Strings, block \in BOOLEAN :
        last' = [op |-> "serialise_roff", v |-> v, block |-> block,
                 res |-> serialise_roff(v, block)]
    /\ pc' = "done"
    /\ UNCHANGED <<bufvars, thrvars>>

TypedOpts == {Opts(t, {}, {}) : t \in Types}

Call_open_titled == Open(TypedOpts, {<<Meta("title", v)>> : v \in Strings})

InitEscape == SeqIdle /\ BufInit /\ ThreadsIdle
NextEscape == Call_serialise_roff \/ Call_open_titled \/ Return
SpecEscape == InitEscape /\ [][NextEscape]_vars

-----------------------------------------------------------------------------
(* Claims about the escapers. *)

Count(s, c) == Cardinality({k \in 1..Len(s) : s[k] = c})
CountSpaces(s) == Cardinality({k \in 1..Len(s) : isspace(s[k])})

\* v without its leading white space
Trimmed(v) == SubSeq(v, SkipSpace(v, 1), Len(v))

IsPrefix(p, s) == Len(p) <= Len(s) /\ SubSeq(s, 1, Len(p)) = p
IsSuffix(p, s) ==
    Len(p) <= Len(s) /\ SubSeq(s, Len(s) - Len(p) + 1, Len(s)) = p

\* the title text an HTML open put between <title> and </title>
TitleText == SubSeq(last.res, Len(HtmlHead) + 1, Len(last.res) - Len(HtmlTail))

HtmlOpened ==
    /\ pc = "done" /\ last.op = "open"
    /\ ~last.opts.null /\ last.opts.type = "LOWDOWN_HTML"

S_Hi_escaped ==
    <<"&", "l", "t", ";", "H", "i", "&", "g", "t", ";", " ">>

\* C9 as stated: the title escaper replaces any run of white space by a
\* single space, so the emitted title has no raw '<' or '>' and never two
\* consecutive spaces (two adjacent spaces of the output can only come from
\* two adjacent white space characters, that is from one run).
C9_RunsCollapsed ==
    HtmlOpened =>
        /\ Count(TitleText, "<") = 0 /\ Count(TitleText, ">") = 0
        /\ \A k \in 1..(Len(TitleText) - 1) :
              ~(TitleText[k] = " " /\ TitleText[k + 1] = " ")

\* C9 as amended: after the leading white space is skipped, every '<' gives
\* "&lt;", every '>' gives "&gt;", every single white space character gives
\* one space (a run of n gives n spaces) and every other character,
\* ampersand and double quote included, is copied; the emitted title has no
\* raw '<' or '>' and no white space other than ' '.
C9_TitleEscaped ==
    HtmlOpened =>
        /\ IsPrefix(HtmlHead, last.res) /\ IsSuffix(HtmlTail, last.res)
        /\ last.rsz = Len(last.res)
        /\ Count(TitleText, "<") = 0 /\ Count(TitleText, ">") = 0
        /\ CountSpaces(TitleText) = Count(TitleText, " ")
        /\ Count(TitleText, " ") = CountSpaces(Trimmed(last.title))
        /\ TitleText # <<>> => TitleText[1] # " "
        /\ Len(TitleText) = Len(Trimmed(last.title))
              + 3 * (Count(last.title, "<") + Count(last.title, ">"))
        /\ Count(TitleText, "&") = Count(last.title, "&")
              + Count(last.title, "<") + Count(last.title, ">")
        /\ Count(TitleText, "\"") = Count(last.title, "\"")
        /\ Count(TitleText, "a") = Count(last.title, "a")
        /\ last.title = S_Hi => TitleText = S_Hi_escaped
        /\ last.title = S_He_said => TitleText = S_He_said

C9_Witness ==
    /\ HtmlOpened
    /\ last.title = <<"<", " ", " ">>
    /\ TitleText = <<"&", "l", "t", ";", " ", " ">>

S_dot_foo_bar_block ==
    <<"\\", "&", ".", "f", "o", "o", "\\", "e", "b", "a", "r", "\n">>

RoffCalled == pc = "done" /\ last.op = "serialise_roff"

\* the first character left after the leading white space is '.'
Dotted(v) == Trimmed(v) # <<>> /\ Trimmed(v)[1] = "."

\* every backslash of r starts one of the escapes \e, \& and \(dq
BackslashesEscaped(r) ==
    \A k \in 1..Len(r) :
        r[k] = "\\" => k < Len(r) /\ r[k + 1] \in {"e", "&", "("}

RoffOpened(type) ==
    /\ pc = "done" /\ last.op = "open"
    /\ ~last.opts.null /\ last.opts.type = type

\* C10: escapeRoff skips leading white space, writes \& exactly when isBlock
\* and the first remaining character is '.', maps backslash to \e, '"' to
\* \(dq only when not isBlock, each white space character to one space,
\* copies the rest, and appends a newline exactly when isBlock.  A block
\* result never begins with '.' and holds one newline, its last byte; an
\* inline result (the .TH title of MAN output) holds no '"' and no newline.
C10_EscapeRoff ==
    /\ RoffCalled =>
        /\ (last.block /\ Dotted(last.v)) = IsPrefix(<<"\\", "&">>, last.res)
        /\ BackslashesEscaped(last.res)
        /\ Len(last.res) = Len(Trimmed(last.v)) + Count(last.v, "\\")
              + (IF last.block THEN 1 ELSE 3 * Count(last.v, "\""))
              + (IF last.block /\ Dotted(last.v) THEN 2 ELSE 0)
        /\ Count(last.res, " ") = CountSpaces(Trimmed(last.v))
        /\ Count(last.res, "\t") = 0
        /\ Count(last.res, "a") = Count(last.v, "a")
        /\ last.block =>
              /\ last.res # <<>>
              /\ last.res[Len(last.res)] = "\n"
              /\ Count(last.res, "\n") = 1
              /\ last.res[1] # "."
              /\ Count(last.res, "\"") = Count(last.v, "\"")
        /\ ~last.block =>
              /\ Count(last.res, "\n") = 0
              /\ Count(last.res, "\"") = 0
        /\ (last.v = S_dot_foo_bar /\ last.block) =>
              last.res = S_dot_foo_bar_block
    /\ RoffOpened("LOWDOWN_MAN") =>
        /\ Count(last.res, "\"") = 2
        /\ Count(last.res, "\n") = 1
        /\ last.res[Len(last.res)] = "\n"
    /\ (RoffOpened("LOWDOWN_NROFF") /\ \A k \in 1..Len(last.m) : last.m[k].key = "title") =>
        /\ Count(last.res, "\n") = 3
        /\ last.res[Len(last.res)] = "\n"
        /\ \A k \in 1..(Len(last.res) - 2) :
              (last.res[k] = "L" /\ last.res[k + 1] = "\n")
                  => last.res[k + 2] # "."

C10_Witness ==
    /\ RoffCalled
    /\ last.v = S_dot_foo_bar /\ last.block
    /\ last.res = S_dot_foo_bar_block

-----------------------------------------------------------------------------
(* The collaborators of the pipeline: the byte buffer, the renderers, the  *)
(* document parser and the typographic substitution pass.  Their code is   *)
(* not part of library.c; they are modelled by their contracts.  A call    *)
(* leaves a trace of resource events: "alloc", "free", and "give" when     *)
(* storage is handed to the caller.                                        *)

DEF_IUNIT == 1024
DEF_OUNIT == 64
DEF_MAX_NESTING == 16

Ev(kind, o) == [e |-> kind, o |-> o]

DataOf(name) ==
    IF name = "ob" THEN "ob.data"
    ELSE IF name = "spb" THEN "spb.data"
    ELSE "ib.data"

\* hbuf_new(unit): an empty buffer with no storage yet
hbuf_new(name, unit) ==
    [name |-> name, data |-> "NULL", bytes |-> <<>>, unit |-> unit]

\* the events of appending bytes to a buffer: storage is allocated by the
\* first bytes put
PutEvents(buf, bytes) ==
    IF buf.data = "NULL" /\ bytes # <<>>
    THEN <<Ev("alloc", DataOf(buf.name))>> ELSE <<>>

\* a buffer after bytes were appended to it
hbuf_put(buf, bytes) ==
    IF bytes = <<>> THEN buf
    ELSE [buf EXCEPT !.data = DataOf(buf.name), !.bytes = @ \o bytes]

\* the events of hbuf_free(buf): the storage, when the buffer still holds
\* it, and the buffer itself
FreeEvents(buf) ==
    (IF buf.data = "NULL" THEN <<>> ELSE <<Ev("free", buf.data)>>)
    \o <<Ev("free", buf.name)>>

\* hrend_html_new(oflags, 0) and hrend_nroff_new(oflags, man)
hrend_html_new(oflags) == [kind |-> "html", oflags |-> oflags, man |-> FALSE]
hrend_nroff_new(oflags, man) == [kind |-> "nroff", oflags |-> oflags, man |-> man]

\* hdoc_new(renderer, opts, feat, max_nesting, roff)
hdoc_new(renderer, feat, nesting, roff) ==
    [renderer |-> renderer, feat |-> feat, nesting |-> nesting, roff |-> roff]

\* the body hdoc_render gives for data: the renderer's paragraph markup
\* around the text
RenderBody(doc, data) ==
    IF doc.renderer.kind = "html"
    THEN <<"<", "p", ">">> \o data \o <<"<", "/", "p", ">", "\n">>
    ELSE IF doc.renderer.man
    THEN <<".", "P", "P", "\n">> \o data \o <<"\n">>
    ELSE <<".", "L", "P", "\n">> \o data \o <<"\n">>

\* the metadata hdoc_render gives for data: with the metadata feature, an
\* input starting with a quote carries a title
RenderMeta(doc, data) ==
    IF "LOWDOWN_METADATA" \in doc.feat /\ data # <<>> /\ data[1] = "\""
    THEN <<Meta("title", data)>> ELSE <<>>

RECURSIVE hsmrt_html(_)
\* hsmrt_html: straight double quotes become &quot;
hsmrt_html(b) ==
    IF b = <<>> THEN <<>>
    ELSE (IF Head(b) = "\"" THEN <<"&", "q", "u", "o", "t", ";">> ELSE <<Head(b)>>)
         \o hsmrt_html(Tail(b))

RECURSIVE hsmrt_nroff(_)
\* hsmrt_nroff: straight double quotes become \(lq
hsmrt_nroff(b) ==
    IF b = <<>> THEN <<>>
    ELSE (IF Head(b) = "\"" THEN <<"\\", "(", "l", "q">> ELSE <<Head(b)>>)
         \o hsmrt_nroff(Tail(b))

\* hbuf_putf(ib, fin): the buffer is grown and the stream is read until its
\* end or a read error; the bytes read before an error stay in the buffer
hbuf_putf(ib, fin) ==
    [ib |-> [ib EXCEPT !.data = DataOf(ib.name),
                       !.bytes = IF fin.err THEN SubSeq(fin.bytes, 1, fin.got)
                                 ELSE fin.bytes],
     rc |-> IF fin.err THEN 1 ELSE 0]

-----------------------------------------------------------------------------
(* The pipeline orchestrator, library.c:48-124.  k is the state of one     *)
(* call of lowdown_buf: its locals, the caller's outputs and the events.   *)

HtmlPath(opts) == opts.null \/ opts.type = "LOWDOWN_HTML"

\* library.c:62-63
buf_buffers ==
    [ob |-> hbuf_new("ob", DEF_OUNIT), spb |-> hbuf_new("spb", DEF_OUNIT),
     ev |-> <<Ev("alloc", "ob"), Ev("alloc", "spb")>>]

\* library.c:65-69
buf_renderer(opts, k) ==
    [ob |-> k.ob, spb |-> k.spb,
     renderer |-> IF HtmlPath(opts)
                  THEN hrend_html_new(IF opts.null THEN {} ELSE opts.oflags)
                  ELSE hrend_nroff_new(opts.oflags, opts.type = "LOWDOWN_MAN"),
     ev |-> k.ev \o <<Ev("alloc", "renderer")>>]

\* library.c:71-75
buf_document(opts, k) ==
    [ob |-> k.ob, spb |-> k.spb, renderer |-> k.renderer,
     document |-> hdoc_new(k.renderer, IF opts.null THEN {} ELSE opts.feat,
                           DEF_MAX_NESTING,
                           ~opts.null /\ opts.type # "LOWDOWN_HTML"),
     ev |-> k.ev \o <<Ev("alloc", "document")>>]

\* library.c:79-84
buf_render(opts, data, k) ==
    [ob |-> hbuf_put(k.ob, RenderBody(k.document, data)), spb |-> k.spb,
     renderer |-> k.renderer, document |-> k.document,
     body |-> RenderBody(k.document, data),
     m |-> RenderMeta(k.document, data),
     msz |-> Len(RenderMeta(k.document, data)),
     ev |-> k.ev \o PutEvents(k.ob, RenderBody(k.document, data))
                 \o <<Ev("free", "document")>>
                 \o <<Ev(IF HtmlPath(opts) THEN "free_html" ELSE "free_nroff",
                         "renderer")>>]

\* library.c:90-93, 95-98: spb as the substitution pass filled it
buf_smarty(opts, k) ==
    hbuf_put(k.spb, IF opts.type = "LOWDOWN_HTML"
                    THEN hsmrt_html(k.ob.bytes) ELSE hsmrt_nroff(k.ob.bytes))

\* the caller's outputs and the events when buffer b is handed over and
\* `freed' lists the events of the hbuf_free calls
buf_give(k, b, freed) ==
    [renderer |-> k.renderer, document |-> k.document, body |-> k.body,
     m |-> k.m, msz |-> k.msz,
     res |-> IF b.data = "NULL" THEN NULL ELSE b.bytes,
     rsz |-> Len(b.bytes), resptr |-> b.data,
     ev |-> k.ev \o freed]

\* library.c:88-104 handing over the renderer's body whatever the flags
\* are (a mutant)
buf_output_raw(opts, k) ==
    buf_give(k, k.ob,
        <<Ev("give", k.ob.data)>> \o FreeEvents([k.ob EXCEPT !.data = "NULL"]))

\* library.c:88-104
buf_output(opts, k) ==
    IF ~opts.null /\ "LOWDOWN_SMARTY" \in opts.oflags
    THEN buf_give(k, buf_smarty(opts, k),
            PutEvents(k.spb, buf_smarty(opts, k).bytes)
            \o FreeEvents(k.ob)
            \o <<Ev("give", buf_smarty(opts, k).data)>>
            \o FreeEvents([buf_smarty(opts, k) EXCEPT !.data = "NULL"]))
    ELSE buf_give(k, k.ob,
            <<Ev("give", k.ob.data)>>
            \o FreeEvents([k.ob EXCEPT !.data = "NULL"]))

\* lowdown_buf(opts, data, datasz, res, rsz, m, msz)
lowdown_buf(opts, data) ==
    buf_output(opts,
        buf_render(opts, data,
            buf_document(opts, buf_renderer(opts, buf_buffers))))

\* library.c:116-119: the read failed; nothing is written for the caller
file_failed(r) ==
    [ret |-> 0, called |-> 0, data |-> NULL, res_set |-> FALSE,
     ev |-> <<Ev("alloc", "ib"), Ev("alloc", "ib.data")>> \o FreeEvents(r.ib)]

\* library.c:121-123, b being what lowdown_buf gave
file_rendered(r, b) ==
    [ret |-> 1, called |-> 1, data |-> r.ib.bytes, res_set |-> TRUE, out |-> b,
     ev |-> <<Ev("alloc", "ib"), Ev("alloc", "ib.data")>> \o b.ev
            \o FreeEvents(r.ib)]

\* library.c:116-123, r being what hbuf_putf gave
file_drained(opts, r) ==
    IF r.rc # 0 THEN file_failed(r)
    ELSE file_rendered(r, lowdown_buf(opts, r.ib.bytes))

\* lowdown_file rendering whatever was read before a read error (a mutant)
lowdown_file_ignoring_error(opts, fin) ==
    file_rendered(hbuf_putf(hbuf_new("ib", DEF_IUNIT), fin),
                  lowdown_buf(opts, hbuf_putf(hbuf_new("ib", DEF_IUNIT), fin).ib.bytes))

\* lowdown_file(opts, fin, res, rsz, m, msz)
lowdown_file(opts, fin) ==
    file_drained(opts, hbuf_putf(hbuf_new("ib", DEF_IUNIT), fin))

-----------------------------------------------------------------------------
(* The public functions called one after the other. *)

ApiOpts ==
    {NoOpts} \cup
    {Opts(t, of, ft) : t \in Types, of \in SUBSET {"LOWDOWN_SMARTY"},
                       ft \in SUBSET {"LOWDOWN_METADATA"}}

\* the inputs: every string of quotes and letters up to MaxStream bytes
Datas == UNION {[1..k -> {"a", "\""}] : k \in 0..MaxStream}

\* an input stream: its bytes, whether reading it fails, and how many bytes
\* are read before it does
Streams ==
    {[bytes |-> b, err |-> FALSE, got |-> Len(b)] : b \in Datas}
    \cup UNION {{[bytes |-> b, err |-> TRUE, got |-> g] : g \in 0..Len(b)} :
                b \in Datas}

S_rcs_malformed == <<"$", "D", "a", "t", "e", ":", " ", "x", "$">>

MetaEntries ==
    {Meta("title", <<".", "a">>), Meta("author", <<"b">>),
     Meta("date", S_2020_01_01), Meta("date", S_not_a_date),
     Meta("rcsdate", S_rcs_2021_02_02), Meta("rcsdate", S_rcs_malformed),
     Meta("keywords", S_2021_3_5_slash)}

Metas == UNION {[1..k -> MetaEntries] : k \in 0..MaxMeta}

Call_lowdown_buf ==
    /\ pc = "idle"
    /\ \E opts \in ApiOpts, data \in Datas :
        last' = [op |-> "lowdown_buf", opts |-> opts, data |-> data,
                 r |-> lowdown_buf(opts, data)]
    /\ pc' = "done"
    /\ UNCHANGED <<bufvars, thrvars>>

Call_lowdown_file ==
    /\ pc = "idle"
    /\ \E opts \in ApiOpts, fin \in Streams :
        last' = [op |-> "lowdown_file", opts |-> opts, fin |-> fin,
                 r |-> lowdown_file(opts, fin)]
    /\ pc' = "done"
    /\ UNCHANGED <<bufvars, thrvars>>

Call_open == Open({NoOpts} \cup TypedOpts, Metas)
Call_close == Close({NoOpts} \cup TypedOpts)

InitApi == SeqIdle /\ BufInit /\ ThreadsIdle
NextApi ==
    \/ Call_lowdown_buf
    \/ Call_lowdown_file
    \/ Call_open
    \/ Call_close
    \/ Return
SpecApi == InitApi /\ [][NextApi]_vars

-----------------------------------------------------------------------------
(* Claims about the pipeline and the wrapper. *)

\* a call of lowdown_buf returned, made directly or by lowdown_file
Rendered ==
    /\ pc = "done"
    /\ \/ last.op = "lowdown_buf"
       \/ last.op = "lowdown_file" /\ last.r.ret = 1

\* what that call of lowdown_buf gave, and the bytes it was given
Given == IF last.op = "lowdown_buf" THEN last.r ELSE last.r.out
GivenData == IF last.op = "lowdown_buf" THEN last.data ELSE last.fin.bytes

Smarty == ~last.opts.null /\ "LOWDOWN_SMARTY" \in last.opts.oflags

CountEv(ev, kinds, o) ==
    Cardinality({k \in 1..Len(ev) : ev[k].e \in kinds /\ ev[k].o = o})
Allocated(ev) == {ev[k].o : k \in {j \in 1..Len(ev) : ev[j].e = "alloc"}}
Frees == {"free", "free_html", "free_nroff"}

\* C1: renderBuffer hands over exactly one final byte sequence: with the
\* typographic-substitution flag set, the output of the substitution pass of
\* the output type (HTML for HTML, roff for NROFF and MAN), never the raw
\* body; with the flag unset or no configuration, the renderer's body byte
\* for byte.  The parser's metadata is returned unchanged in both cases.
C1_OneFinalOutput ==
    Rendered =>
        /\ Cardinality({k \in 1..Len(Given.ev) : Given.ev[k].e = "give"}) = 1
        /\ Given.rsz = Len(Given.res)
        /\ Given.body = RenderBody(Given.document, GivenData)
        /\ Given.m = RenderMeta(Given.document, GivenData)
        /\ Given.msz = Len(Given.m)
        /\ Smarty =>
              /\ Given.resptr = "spb.data"
              /\ CountEv(Given.ev, {"give"}, "ob.data") = 0
              /\ Given.res = IF last.opts.type = "LOWDOWN_HTML"
                             THEN hsmrt_html(Given.body)
                             ELSE hsmrt_nroff(Given.body)
        /\ ~Smarty =>
              /\ Given.resptr = "ob.data"
              /\ Given.res = Given.body

C1_Witness ==
    /\ Rendered /\ Smarty
    /\ last.opts.type = "LOWDOWN_MAN"
    /\ Given.res # Given.body
    /\ Given.msz = 1

\* C4: every renderBuffer call tears down what it creates on every path:
\* the parser is released, the renderer is released by the destructor of
\* the variant that created it, and every buffer and storage the call
\* allocated is released exactly once, except the storage handed to the
\* caller, which is detached and never released by the call.
C4_TornDown ==
    Rendered =>
        /\ \A o \in Allocated(Given.ev) :
              IF o = Given.resptr
              THEN /\ CountEv(Given.ev, Frees, o) = 0
                   /\ CountEv(Given.ev, {"give"}, o) = 1
              ELSE /\ CountEv(Given.ev, Frees, o) = 1
                   /\ CountEv(Given.ev, {"give"}, o) = 0
        /\ CountEv(Given.ev, {"free_html"}, "renderer")
              = (IF Given.renderer.kind = "html" THEN 1 ELSE 0)
        /\ CountEv(Given.ev, {"free_nroff"}, "renderer")
              = (IF Given.renderer.kind = "nroff" THEN 1 ELSE 0)

\* C5: an absent configuration is valid input to every operation taking
\* it and means HTML with no flags: renderBuffer and renderFile select the
\* HTML renderer with flags 0 and roff-safe normalisation off, open emits
\* the HTML document shell, close emits the HTML closing tags, and no
\* operation faults.
C5_AbsentConfiguration ==
    (pc \in {"done", "fault"} /\ last.opts.null) =>
        /\ pc # "fault"
        /\ Rendered =>
              /\ Given.renderer = hrend_html_new({})
              /\ Given.document.feat = {}
              /\ ~Given.document.roff
        /\ last.op = "open" =>
              /\ IsPrefix(HtmlHead, last.res)
              /\ IsSuffix(HtmlTail, last.res)
        /\ last.op = "close" => last.res = HtmlClose

\* C6: renderFile fails exactly when draining the stream reports a read
\* error: it then returns the failure flag, releases the partly filled
\* input buffer, never calls renderBuffer and writes none of the caller's
\* outputs; otherwise it calls renderBuffer once on the fully drained
\* bytes, releases the input buffer afterwards and returns success.
C6_RenderFile ==
    (pc = "done" /\ last.op = "lowdown_file") =>
        /\ (last.r.ret = 0) = last.fin.err
        /\ last.r.ret \in {0, 1}
        /\ CountEv(last.r.ev, Frees, "ib") = 1
        /\ CountEv(last.r.ev, Frees, "ib.data") = 1
        /\ last.r.ev[Len(last.r.ev)] = Ev("free", "ib")
        /\ last.fin.err =>
              /\ last.r.called = 0
              /\ ~last.r.res_set
              /\ Allocated(last.r.ev) = {"ib", "ib.data"}
        /\ ~last.fin.err =>
              /\ last.r.called = 1
              /\ last.r.data = last.fin.bytes
              /\ last.r.res_set
              /\ last.r.out.body = RenderBody(last.r.out.document, last.fin.bytes)
              /\ "ob" \in Allocated(last.r.ev)

C6_Witness ==
    /\ pc = "done" /\ last.op = "lowdown_file"
    /\ last.fin.err /\ last.fin.got = 1 /\ Len(last.fin.bytes) = 2
    /\ last.r.ret = 0

DateKeys == {"date", "rcsdate"}

\* the last entry of m whose key is date or rcsdate; 0 when there is none
LastDateEntry(m) ==
    IF \E k \in 1..Len(m) : m[k].key \in DateKeys
    THEN CHOOSE k \in 1..Len(m) :
            /\ m[k].key \in DateKeys
            /\ \A j \in (k + 1)..Len(m) : m[j].key \notin DateKeys
    ELSE 0

\* the Canonical Date of the date entries of the model's inputs, written
\* out; NULL for the malformed ones
NormalizedEntry(e) ==
    IF e = Meta("date", S_2020_01_01) THEN S_2020_01_01
    ELSE IF e = Meta("rcsdate", S_rcs_2021_02_02) THEN S_2021_02_02
    ELSE NULL

ExpectedDate(m) ==
    IF LastDateEntry(m) = 0 THEN Today
    ELSE IF NormalizedEntry(m[LastDateEntry(m)]) = NULL THEN Today
    ELSE NormalizedEntry(m[LastDateEntry(m)])

Opened == pc = "done" /\ last.op = "open"

\* C2: the date open uses is decided by the last entry whose key is date or
\* rcsdate alone: its normalised value, or the current local date when it
\* is malformed (even after an earlier well-formed one) or when there is no
\* such entry.  [(date, 2020-01-01), (rcsdate, $Date: 2021/02/02 00:00:00$)]
\* gives 2021-02-02 and the reversed order gives 2020-01-01.
C2_LastDateEntryDecides ==
    Opened =>
        /\ last.date = ExpectedDate(last.m)
        /\ (~last.opts.null /\ last.opts.type = "LOWDOWN_NROFF") =>
              IsPrefix(<<".", "D", "A", " ">> \o ExpectedDate(last.m) \o <<"\n">>,
                       last.res)
        /\ (~last.opts.null /\ last.opts.type = "LOWDOWN_MAN") =>
              IsSuffix(<<"\"", " ", "7", " ">> \o ExpectedDate(last.m) \o <<"\n">>,
                       last.res)
        /\ last.m = <<Meta("date", S_2020_01_01), Meta("rcsdate", S_rcs_2021_02_02)>>
              => last.date = S_2021_02_02
        /\ last.m = <<Meta("rcsdate", S_rcs_2021_02_02), Meta("date", S_2020_01_01)>>
              => last.date = S_2020_01_01

C2_Witness ==
    /\ Opened
    /\ ~last.opts.null /\ last.opts.type = "LOWDOWN_NROFF"
    /\ last.m = <<Meta("date", S_2020_01_01), Meta("rcsdate", S_rcs_malformed)>>
    /\ last.date = Today

-----------------------------------------------------------------------------
(* Two threads inside lowdown_standalone_open at the same time.  The locals *)
(* of a call (i, date, y, m, d, the strftime buffer) are the thread's own;  *)
(* the buffers of date2str and rcsdate2str are static, one copy for all    *)
(* threads.  snprintf fills a buffer with no lock held: it stores a NUL at  *)
(* the start, then the bytes of the string one after the other, then the   *)
(* final NUL, and every store is a step other threads can see.  The date   *)
(* is emitted by a formatted print of "%s", which measures the string and  *)
(* then copies that many bytes, one after the other.                       *)

ThreadMetas ==
    {<<Meta("date", S_2020_01_01)>>,
     <<Meta("date", S_2021_3_5_slash)>>,
     <<Meta("title", <<"a">>), Meta("rcsdate", S_rcs_2021_02_02)>>,
     <<Meta("rcsdate", S_rcs_example), Meta("date", S_not_a_date)>>}

\* the normaliser the loop of library.c:215-223 calls for entry e
Normalise(e) ==
    IF e.key = "rcsdate" THEN rcsdate2str(e.value) ELSE date2str(e.value)

\* a thread enters lowdown_standalone_open with metadata m
open_enter(t) ==
    /\ tpc[t] = "off"
    /\ \E m \in ThreadMetas : tmeta' = [tmeta EXCEPT ![t] = m]
    /\ tpc' = [tpc EXCEPT ![t] = "scan"]
    /\ ti' = [ti EXCEPT ![t] = 1]
    /\ UNCHANGED <<seqvars, bufvars, tdate, tscan, tw, tn, tout>>

\* library.c:215-223 for an entry that is no date, or whose date is
\* malformed: the normaliser returns NULL without touching its buffer
open_scan_skip(t) ==
    /\ tpc[t] = "scan"
    /\ ti[t] <= Len(tmeta[t])
    /\ \E e \in {tmeta[t][ti[t]]} :
        \/ /\ e.key \notin {"date", "rcsdate"}
           /\ UNCHANGED tdate
        \/ /\ e.key \in {"date", "rcsdate"}
           /\ Normalise(e).ret = "NULL"
           /\ tdate' = [tdate EXCEPT ![t] = "NULL"]
    /\ ti' = [ti EXCEPT ![t] = @ + 1]
    /\ UNCHANGED <<seqvars, bufvars, tpc, tmeta, tscan, tw, tn, tout>>

\* library.c:135-143 and 159-172: the entry is a well-formed date, so the
\* normaliser goes on to snprintf
open_scan_date(t) ==
    /\ tpc[t] = "scan"
    /\ ti[t] <= Len(tmeta[t])
    /\ tmeta[t][ti[t]].key \in {"date", "rcsdate"}
    /\ \E r \in {Normalise(tmeta[t][ti[t]])} :
        /\ r.ret # "NULL"
        /\ tscan' = [tscan EXCEPT ![t] = r.buf]
    /\ tpc' = [tpc EXCEPT ![t] = "snprintf"]
    /\ UNCHANGED <<seqvars, bufvars, ti, tdate, tmeta, tw, tn, tout>>

\* byte k of the static buffer of the normaliser thread t is in becomes c
StoreByte(t, k, c) ==
    IF tmeta[t][ti[t]].key = "date"
    THEN /\ date2str_buf' = [date2str_buf EXCEPT ![k] = c]
         /\ UNCHANGED rcsdate2str_buf
    ELSE /\ rcsdate2str_buf' = [rcsdate2str_buf EXCEPT ![k] = c]
         /\ UNCHANGED date2str_buf

\* library.c:145 and 173: snprintf starts by making the buffer the empty
\* string
open_snprintf_clear(t) ==
    /\ tpc[t] = "snprintf"
    /\ StoreByte(t, 1, NUL)
    /\ tw' = [tw EXCEPT ![t] = 0]
    /\ tpc' = [tpc EXCEPT ![t] = "snprintf_put"]
    /\ UNCHANGED <<seqvars, ti, tdate, tmeta, tscan, tn, tout>>

\* library.c:145 and 173: snprintf stores the next byte of the string
open_snprintf_put(t) ==
    /\ tpc[t] = "snprintf_put"
    /\ tw[t] < Len(tscan[t])
    /\ StoreByte(t, tw[t] + 1, tscan[t][tw[t] + 1])
    /\ tw' = [tw EXCEPT ![t] = @ + 1]
    /\ UNCHANGED <<seqvars, tpc, ti, tdate, tmeta, tscan, tn, tout>>

\* library.c:145-146 and 173-174: snprintf stores the final NUL, the
\* normaliser returns its buffer and the loop stores the pointer in `date'
open_snprintf_end(t) ==
    /\ tpc[t] = "snprintf_put"
    /\ tw[t] = Len(tscan[t])
    /\ StoreByte(t, tw[t] + 1, NUL)
    /\ tdate' = [tdate EXCEPT ![t] = Normalise(tmeta[t][ti[t]]).ret]
    /\ tpc' = [tpc EXCEPT ![t] = "scan"]
    /\ ti' = [ti EXCEPT ![t] = @ + 1]
    /\ UNCHANGED <<seqvars, tmeta, tscan, tw, tn, tout>>

\* library.c:227-232: the loop is over; without a date the current local
\* date is formatted into the call's own buffer
open_fallback(t) ==
    /\ tpc[t] = "scan"
    /\ ti[t] > Len(tmeta[t])
    /\ tdate' = [tdate EXCEPT ![t] = IF @ = "NULL" THEN "buf" ELSE @]
    /\ tpc' = [tpc EXCEPT ![t] = "emit"]
    /\ UNCHANGED <<seqvars, bufvars, ti, tmeta, tscan, tw, tn, tout>>

\* the bytes the thread's `date' points at: a static buffer, or the call's
\* own buffer holding the current local date
ThreadBuf(t) ==
    IF tdate[t] = "date2str.buf" THEN date2str_buf
    ELSE IF tdate[t] = "rcsdate2str.buf" THEN rcsdate2str_buf
    ELSE Today \o <<NUL>>

\* the string the thread's `date' points at
ThreadDate(t) == CStr(ThreadBuf(t))

\* library.c:261 and 271: the print measures the string at `date'
open_measure(t) ==
    /\ tpc[t] = "emit"
    /\ tn' = [tn EXCEPT ![t] = Len(ThreadDate(t))]
    /\ tout' = [tout EXCEPT ![t] = <<>>]
    /\ tpc' = [tpc EXCEPT ![t] = "copy"]
    /\ UNCHANGED <<seqvars, bufvars, ti, tdate, tmeta, tscan, tw>>

\* library.c:261 and 271: the print copies the next byte of the measured
\* length, whatever that byte is by now
open_copy(t) ==
    /\ tpc[t] = "copy"
    /\ Len(tout[t]) < tn[t]
    /\ tout' = [tout EXCEPT ![t] = Append(@, ThreadBuf(t)[Len(@) + 1])]
    /\ UNCHANGED <<seqvars, bufvars, tpc, ti, tdate, tmeta, tscan, tw, tn>>

\* library.c:261-277: the date has been emitted and the call is about to
\* return
open_emit(t) ==
    /\ tpc[t] = "copy"
    /\ Len(tout[t]) = tn[t]
    /\ tpc' = [tpc EXCEPT ![t] = "done"]
    /\ UNCHANGED <<seqvars, bufvars, ti, tdate, tmeta, tscan, tw, tn, tout>>

\* library.c:275-280: the call returns; the thread may call open again
open_return(t) ==
    /\ tpc[t] = "done"
    /\ tpc' = [tpc EXCEPT ![t] = "off"]
    /\ ti' = [ti EXCEPT ![t] = 0]
    /\ tdate' = [tdate EXCEPT ![t] = "NULL"]
    /\ tmeta' = [tmeta EXCEPT ![t] = <<>>]
    /\ tscan' = [tscan EXCEPT ![t] = <<>>]
    /\ tw' = [tw EXCEPT ![t] = 0]
    /\ tn' = [tn EXCEPT ![t] = 0]
    /\ tout' = [tout EXCEPT ![t] = NULL]
    /\ UNCHANGED <<seqvars, bufvars>>

InitThreads == SeqIdle /\ BufInit /\ ThreadsIdle
NextThreads ==
    \E t \in Threads :
        \/ open_enter(t)
        \/ open_scan_skip(t)
        \/ open_scan_date(t)
        \/ open_snprintf_clear(t)
        \/ open_snprintf_put(t)
        \/ open_snprintf_end(t)
        \/ open_fallback(t)
        \/ open_measure(t)
        \/ open_copy(t)
        \/ open_emit(t)
        \/ open_return(t)
SpecThreads == InitThreads /\ [][NextThreads]_vars

\* the Canonical Date of the date entries of the threads' inputs, written out
CanonicalEntry(e) ==
    IF e \in {Meta("date", S_2021_3_5_slash), Meta("rcsdate", S_rcs_example)}
    THEN S_2021_03_05
    ELSE NormalizedEntry(e)

CanonicalOf(m) ==
    IF CanonicalEntry(m[LastDateEntry(m)]) = NULL THEN Today
    ELSE CanonicalEntry(m[LastDateEntry(m)])

\* C3: date normalisation is stateless and safe to call concurrently: with
\* two threads in open on different metadata, under every interleaving the
\* date string a thread holds once its scan is over, and the one it emits,
\* is the canonical date of its own input, never changed by the other
\* thread's call in between.
C3_ThreadSafe ==
    \A t \in Threads :
        (\A u \in Threads \ {t} : tpc[u] # "off" /\ tmeta[u] # tmeta[t]) =>
            /\ tpc[t] = "emit" => ThreadDate(t) = CanonicalOf(tmeta[t])
            /\ tpc[t] = "done" => tout[t] = CanonicalOf(tmeta[t])

=============================================================================
